---- MODULE Spec2Model ----
(***************************************************************************)
(* Model of the streaming speech-to-text pipeline of                       *)
(* src/frontend/src-tauri/src/audio/stt.rs: the dispatch task spawned by   *)
(* create_whisper_channel, the segment runner run_stt, the blocking bridge *)
(* stt_sync and the engine routing of stt.  The external collaborators     *)
(* (resample, prepare_segments, write_audio_to_file, the remote client and *)
(* the local model) are modelled by their outcome, chosen                  *)
(* nondeterministically at each call.                                      *)
(***************************************************************************)
EXTENDS Integers, Sequences, FiniteSets, TLC

\* ------------------------------------------------------------------ bounds
\* Number of chunks the producer sends in one run.
MaxChunks == 2
\* Largest number of segments the segmenter yields for one chunk.
MaxSegs == 2
\* Capacity of the two bounded queues (1000 in the program, scaled down).
QueueCap == 2

\* --------------------------------------------------------------- constants
\* m::SAMPLE_RATE, the canonical rate of the local model.
SAMPLE_RATE == 16000

Devices == {"mic", "spk"}
\* The canonical rate and a capture rate that differs from it.
Rates == {SAMPLE_RATE, 48000}
\* The two supported mel-bin counts and one with no embedded filter table.
MelBins == {80, 128, 64}
Engines == {"Deepgram", "Whisper"}
Outcomes == {"ok", "fail"}
Languages == <<"en">>

\* Option<T>: None is the empty sequence, Some(x) a sequence of one element.
None == <<>>
Some(x) == <<x>>
IsSome(o) == Len(o) = 1
Unwrap(o) == o[1]

\* Result<T>
Ok(v) == [ok |-> TRUE, val |-> v]
Err(e) == [ok |-> FALSE, val |-> e]

VARIABLES
    pc,                     \* position of the dispatch task
    shutdown_flag,          \* Arc<AtomicBool>
    input_queue,            \* bounded channel of AudioInput
    input_sender,           \* TRUE while an input sender is alive
    output_queue,           \* bounded channel of TranscriptionResult
    output_receiver,        \* TRUE while the output receiver is alive
    audio_devices_control,  \* Option of the device-control map
    num_mel_bins,           \* whisper_model.model.config().num_mel_bins
    audio_transcription_engine,
    audio,                  \* the chunk being processed (Option)
    path,                   \* path of the chunk's audio file
    segments,               \* what is left of the chunk's segment stream
    transcription_result,   \* the result run_stt built, about to be sent (Option)
    \* history of the run, written but never read by the program
    nsent,                  \* chunks the producer has queued
    nrecv,                  \* chunks the dispatch loop has received
    queued_at_drop,         \* chunks in the input queue when its sender was dropped
    chunk_log,              \* per chunk: what became of it
    dispatched,             \* the last chunk received and the collaborators run for it
    stt_log,                \* the engine calls of the stt call in progress
    last_sent,              \* the segment of the last result the output queue accepted
    send_failed,            \* chunks whose results met a dropped receiver
    \* the overlap resolver of TranscriptionResult
    previous_transcript,    \* the text of the previous result
    transcription,          \* self.transcription of the current result (Option)
    overlap                 \* the resolver call made on the two and what it returned

vars == <<pc, shutdown_flag, input_queue, input_sender, output_queue,
          output_receiver, audio_devices_control, num_mel_bins,
          audio_transcription_engine, audio, path, segments,
          transcription_result, nsent, nrecv, queued_at_drop, chunk_log,
          dispatched, stt_log, last_sent, send_failed,
          previous_transcript, transcription, overlap>>

config == <<audio_devices_control, num_mel_bins, audio_transcription_engine>>
history == <<nsent, nrecv, queued_at_drop, chunk_log, dispatched, stt_log,
             last_sent, send_failed>>
resolver == <<previous_transcript, transcription, overlap>>
pipeline == <<pc, shutdown_flag, input_queue, input_sender, output_queue,
              output_receiver, audio, path, segments, transcription_result,
              config, history>>

\* ------------------------------------------------------------ collaborators
\* process_with_whisper(model, audio, mel_filters, languages), by its outcome.
process_with_whisper(samples, outcome) ==
    IF outcome = "ok" THEN Ok("local text") ELSE Err("whisper failed")

\* transcribe_with_deepgram(api_key, audio, device, sample_rate, languages)
transcribe_with_deepgram(samples, outcome) ==
    IF outcome = "ok" THEN Ok("remote text") ELSE Err("deepgram failed")

EngineCall(samples, languages) == [audio |-> samples, languages |-> languages]

\* Variant of stt without the fallback: the remote failure is returned.
stt_no_fallback(samples, mel, engine, languages, remote, local) ==
    IF mel \notin {80, 128}
    THEN [result |-> Err("unexpected num_mel_bins"),
          remote_calls |-> <<>>, local_calls |-> <<>>]
    ELSE IF engine = "Deepgram"
    THEN [result |-> transcribe_with_deepgram(samples, remote),
          remote_calls |-> <<EngineCall(samples, languages)>>,
          local_calls |-> <<>>]
    ELSE [result |-> process_with_whisper(samples, local),
          remote_calls |-> <<>>,
          local_calls |-> <<EngineCall(samples, languages)>>]

\* Variant of stt that goes to the engines whatever the mel-bin count is.
stt_any_mel_bins(samples, mel, engine, languages, remote, local) ==
    IF engine = "Deepgram"
    THEN LET r == transcribe_with_deepgram(samples, remote) IN
         IF r.ok
         THEN [result |-> Ok(r.val),
               remote_calls |-> <<EngineCall(samples, languages)>>,
               local_calls |-> <<>>]
         ELSE [result |-> process_with_whisper(samples, local),
               remote_calls |-> <<EngineCall(samples, languages)>>,
               local_calls |-> <<EngineCall(samples, languages)>>]
    ELSE [result |-> process_with_whisper(samples, local),
          remote_calls |-> <<>>,
          local_calls |-> <<EngineCall(samples, languages)>>]

\* ------------------------------------------------------------------- stt
\* The outcome of stt together with the calls it made to the two engines.
stt(samples, mel, engine, languages, remote, local) ==
    IF mel \notin {80, 128}
    THEN [result |-> Err("unexpected num_mel_bins"),
          remote_calls |-> <<>>, local_calls |-> <<>>]
    ELSE IF engine = "Deepgram"
    THEN LET r == transcribe_with_deepgram(samples, remote) IN
         IF r.ok
         THEN [result |-> Ok(r.val),
               remote_calls |-> <<EngineCall(samples, languages)>>,
               local_calls |-> <<>>]
         ELSE [result |-> process_with_whisper(samples, local),
               remote_calls |-> <<EngineCall(samples, languages)>>,
               local_calls |-> <<EngineCall(samples, languages)>>]
    ELSE [result |-> process_with_whisper(samples, local),
          remote_calls |-> <<>>,
          local_calls |-> <<EngineCall(samples, languages)>>]

\* stt_sync runs stt on a thread of its own and returns what it returned.
stt_sync(samples, mel, engine, languages, remote, local) ==
    stt(samples, mel, engine, languages, remote, local)

\* ----------------------------------------------------------------- run_stt
AudioInput(data, sample_rate, channels, device) ==
    [data |-> data, sample_rate |-> sample_rate, channels |-> channels,
     device |-> device]

\* Variant of run_stt whose error result keeps an empty transcription.
run_stt_both_set(segment, device, file_path, outcome) ==
    [input |-> AudioInput(segment.samples, segment.sample_rate, 1, device),
     transcription |-> IF outcome.ok THEN Some(outcome.val) ELSE Some(""),
     path |-> file_path,
     error |-> IF outcome.ok THEN None ELSE Some(outcome.val),
     speaker_embedding |-> IF outcome.ok THEN segment.embedding ELSE <<>>]

run_stt(segment, device, file_path, outcome) ==
    IF outcome.ok
    THEN [input |-> AudioInput(segment.samples, segment.sample_rate, 1, device),
          transcription |-> Some(outcome.val),
          path |-> file_path,
          error |-> None,
          speaker_embedding |-> segment.embedding]
    ELSE [input |-> AudioInput(segment.samples, segment.sample_rate, 1, device),
          transcription |-> None,
          path |-> file_path,
          error |-> Some(outcome.val),
          speaker_embedding |-> <<>>]

\* --------------------------------------------------------- dispatch loop
\* A chunk as the producer sends it; id is its place in the arrival order.
Chunks == [id : 1..MaxChunks, device : Devices, sample_rate : Rates]

\* The device-control maps a channel may be created with.
ControlMaps == [{"mic"} -> BOOLEAN]

\* The segments prepare_segments yields for a chunk, in stream order.
SpeechSegment(chunk, i) ==
    [samples |-> [chunk |-> chunk.id, seg |-> i],
     sample_rate |-> SAMPLE_RATE,
     embedding |-> <<1>>]

prepare_segments(chunk, n) == [i \in 1..n |-> SpeechSegment(chunk, i)]

\* write_audio_to_file names the file after the device and the time.
FilePath(chunk) == "file"

\* Variant of DeviceGate that lets a device missing from the map through.
DeviceGate_unknown_passes(control, device) ==
    IF ~IsSome(control) THEN "panic"
    ELSE IF device \in DOMAIN Unwrap(control)
         THEN IF ~Unwrap(control)[device] THEN "stopped" ELSE "pass"
         ELSE "pass"

\* The lookup of the chunk's device in the control map.
DeviceGate(control, device) ==
    IF ~IsSome(control) THEN "panic"
    ELSE IF device \in DOMAIN Unwrap(control)
         THEN IF ~Unwrap(control)[device] THEN "stopped" ELSE "pass"
         ELSE "unknown"

NeedsResample(sample_rate) == sample_rate # SAMPLE_RATE

\* `continue`: back to the top of the loop, nothing of the chunk is kept.
Skip(fate, invoked) ==
    [pc |-> "top", audio |-> None, path |-> "", segments |-> <<>>,
     fate |-> fate, invoked |-> invoked]

\* The unwrap of an absent control map panics and ends the task.
Panicked ==
    [pc |-> "panicked", audio |-> None, path |-> "", segments |-> <<>>,
     fate |-> "panic", invoked |-> {}]

\* Variant of WriteAudio in which a failed write drops the chunk.
WriteAudio_failure_skips(chunk, invoked, n, written) ==
    IF written = "ok"
    THEN [pc |-> "segs",
          audio |-> Some([chunk EXCEPT !.sample_rate = SAMPLE_RATE]),
          path |-> FilePath(chunk),
          segments |-> prepare_segments(chunk, n),
          fate |-> "processed",
          invoked |-> invoked \cup {"write_audio_to_file"}]
    ELSE [pc |-> "top", audio |-> None, path |-> "", segments |-> <<>>,
          fate |-> "write_err",
          invoked |-> invoked \cup {"write_audio_to_file"}]

\* write_audio_to_file, then the inner loop over the segments.
WriteAudio(chunk, invoked, n, written) ==
    [pc |-> "segs",
     audio |-> Some([chunk EXCEPT !.sample_rate = SAMPLE_RATE]),
     path |-> IF written = "ok" THEN FilePath(chunk) ELSE "",
     segments |-> prepare_segments(chunk, n),
     fate |-> "processed",
     invoked |-> invoked \cup {"write_audio_to_file"}]

\* Variant of Segment that takes a segmenter error for an empty stream.
Segment_error_as_empty(chunk, invoked, segmented, n, written) ==
    WriteAudio(chunk, invoked \cup {"prepare_segments"},
               IF segmented = "fail" THEN 0 ELSE n, written)

\* prepare_segments; its error skips the chunk.
Segment(chunk, invoked, segmented, n, written) ==
    IF segmented = "fail"
    THEN Skip("segment_err", invoked \cup {"prepare_segments"})
    ELSE WriteAudio(chunk, invoked \cup {"prepare_segments"}, n, written)

\* resample when the rate is not the canonical one; its error skips the chunk.
Resample(chunk, resampled, segmented, n, written) ==
    IF NeedsResample(chunk.sample_rate)
    THEN IF resampled = "fail"
         THEN Skip("resample_err", {"resample"})
         ELSE Segment(chunk, {"resample"}, segmented, n, written)
    ELSE Segment(chunk, {}, segmented, n, written)

\* The Ok(audio) arm up to the inner loop.
Dispatch(chunk, control, resampled, segmented, n, written) ==
    LET gate == DeviceGate(control, chunk.device) IN
    IF gate = "panic" THEN Panicked
    ELSE IF gate # "pass" THEN Skip(gate, {})
    ELSE Resample(chunk, resampled, segmented, n, written)

TaskEnded == pc \in {"terminated", "panicked"}

NoSamples == [chunk |-> 0, seg |-> 0]

NoDispatch == [chunk |-> [id |-> 0, device |-> "", sample_rate |-> 0],
               failure |-> "", written |-> "", yielded |-> 0, invoked |-> {}]

\* Which collaborator, if any, fails on a chunk that gets as far as calling it.
Failure(chunk, resampled, segmented) ==
    IF chunk.sample_rate # SAMPLE_RATE /\ resampled = "fail" THEN "resample"
    ELSE IF segmented = "fail" THEN "prepare_segments"
    ELSE "none"

\* No resolver call has been made.
NoOverlap == [op |-> "", result |-> None, adopted |-> FALSE]

\* The outcome of write_audio_to_file for a chunk that gets as far as the
\* write, "" for one that does not.
Written(chunk, control, resampled, segmented, written) ==
    IF IsSome(control)
       /\ chunk.device \in DOMAIN Unwrap(control)
       /\ Unwrap(control)[chunk.device]
       /\ Failure(chunk, resampled, segmented) = "none"
    THEN written
    ELSE ""

NoCall == [remote_calls |-> <<>>, local_calls |-> <<>>, result |-> Err(""),
           engine |-> "", mel |-> 0, remote |-> "", local |-> "",
           samples |-> NoSamples]

Init ==
    /\ pc = "top"
    /\ shutdown_flag = FALSE
    /\ input_queue = <<>>
    /\ input_sender = TRUE
    /\ output_queue = <<>>
    /\ output_receiver = TRUE
    /\ audio_devices_control \in {None} \cup {Some(m) : m \in ControlMaps}
    /\ num_mel_bins \in MelBins
    /\ audio_transcription_engine \in Engines
    /\ audio = None
    /\ path = ""
    /\ segments = <<>>
    /\ transcription_result = None
    /\ nsent = 0
    /\ nrecv = 0
    /\ queued_at_drop = 0
    /\ chunk_log = [c \in 1..MaxChunks |-> "unseen"]
    /\ dispatched = NoDispatch
    /\ stt_log = NoCall
    /\ last_sent = NoSamples
    /\ send_failed = {}
    /\ previous_transcript = <<>>
    /\ transcription = None
    /\ overlap = NoOverlap

\* Variant of recv that hands out the newest chunk first.
recv_newest_first(queue, sender_alive) ==
    IF queue # <<>>
    THEN [kind |-> "ok", msg |-> queue[Len(queue)],
          rest |-> SubSeq(queue, 1, Len(queue) - 1)]
    ELSE IF ~sender_alive
         THEN [kind |-> "err", msg |-> NoDispatch.chunk, rest |-> queue]
         ELSE [kind |-> "block", msg |-> NoDispatch.chunk, rest |-> queue]

\* Variant of recv that reports the error as soon as the senders are gone.
recv_error_on_disconnect(queue, sender_alive) ==
    IF ~sender_alive
    THEN [kind |-> "err", msg |-> NoDispatch.chunk, rest |-> queue]
    ELSE IF queue # <<>>
         THEN [kind |-> "ok", msg |-> Head(queue), rest |-> Tail(queue)]
         ELSE [kind |-> "block", msg |-> NoDispatch.chunk, rest |-> queue]

\* recv on the input channel: the oldest chunk; an error once the channel is
\* empty and every sender is gone; else it blocks.
recv(queue, sender_alive) ==
    IF queue # <<>>
    THEN [kind |-> "ok", msg |-> Head(queue), rest |-> Tail(queue)]
    ELSE IF ~sender_alive
         THEN [kind |-> "err", msg |-> NoDispatch.chunk, rest |-> queue]
         ELSE [kind |-> "block", msg |-> NoDispatch.chunk, rest |-> queue]

\* segments.recv(): the next segment of the stream, None at its end.
segments_recv(stream) ==
    IF stream = <<>>
    THEN [segment |-> None, rest |-> stream]
    ELSE [segment |-> Some(Head(stream)), rest |-> Tail(stream)]

\* Variant of InnerLoopBreaks that also stops at a failed transcription.
InnerLoopBreaks_on_error_result(send_ok, result) ==
    ~send_ok \/ IsSome(result.error)

\* `if output_sender.send(..).is_err() { break; }`
InnerLoopBreaks(send_ok, result) == ~send_ok

\* Variant of AfterBreak that ends the task when the consumer is gone.
AfterBreak_terminates == "terminated"

\* Where the task goes on after the break out of the inner loop.
AfterBreak == "top"

\* Top of the loop: the load of the shutdown flag.
CheckShutdown ==
    /\ pc = "top"
    /\ pc' = IF shutdown_flag THEN "terminated" ELSE "recv"
    /\ UNCHANGED <<resolver, shutdown_flag, input_queue, input_sender, output_queue,
                   output_receiver, audio, path, segments,
                   transcription_result, config, history>>

\* recv(input_receiver) returns a chunk: gate, resample, segment, write.
RecvChunk ==
    /\ pc = "recv"
    /\ recv(input_queue, input_sender).kind = "ok"
    /\ \E resampled \in Outcomes, segmented \in Outcomes,
          n \in 0..MaxSegs, written \in Outcomes :
        LET input_result == recv(input_queue, input_sender)
            chunk == input_result.msg
            d == Dispatch(chunk, audio_devices_control, resampled,
                          segmented, n, written)
        IN  /\ input_queue' = input_result.rest
            /\ nrecv' = nrecv + 1
            /\ pc' = d.pc
            /\ audio' = d.audio
            /\ path' = d.path
            /\ segments' = d.segments
            /\ chunk_log' = [chunk_log EXCEPT ![chunk.id] = d.fate]
            /\ dispatched' =
                   LET w == Written(chunk, audio_devices_control, resampled,
                                    segmented, written)
                   IN  [chunk |-> chunk,
                        failure |-> Failure(chunk, resampled, segmented),
                        written |-> w,
                        yielded |-> IF w = "" THEN 0 ELSE n,
                        invoked |-> d.invoked]
    /\ UNCHANGED <<resolver, shutdown_flag, input_sender, output_queue, output_receiver,
                   transcription_result, config, nsent, queued_at_drop,
                   stt_log, last_sent, send_failed>>

\* recv(input_receiver) returns an error: the queue is empty and no sender is left.
RecvError ==
    /\ pc = "recv"
    /\ recv(input_queue, input_sender).kind = "err"
    /\ pc' = "terminated"
    /\ UNCHANGED <<resolver, shutdown_flag, input_queue, input_sender, output_queue,
                   output_receiver, audio, path, segments,
                   transcription_result, config, history>>

\* segments.recv(): the stream is over, or its next segment goes through run_stt.
NextSegment ==
    /\ pc = "segs"
    /\ IF ~IsSome(segments_recv(segments).segment)
       THEN /\ pc' = "top"
            /\ audio' = None
            /\ path' = ""
            /\ UNCHANGED <<segments, transcription_result, dispatched, stt_log>>
       ELSE \E remote \in Outcomes, local \in Outcomes :
            LET segment == Unwrap(segments_recv(segments).segment)
                chunk == Unwrap(audio)
                call == stt_sync(segment.samples, num_mel_bins,
                                 audio_transcription_engine, Languages,
                                 remote, local)
            IN  /\ transcription_result' =
                       Some(run_stt(segment, chunk.device, path, call.result))
                /\ segments' = segments_recv(segments).rest
                /\ pc' = "send"
                /\ stt_log' = [remote_calls |-> call.remote_calls,
                               local_calls |-> call.local_calls,
                               result |-> call.result,
                               engine |-> audio_transcription_engine,
                               mel |-> num_mel_bins,
                               remote |-> remote, local |-> local,
                               samples |-> segment.samples]
                /\ dispatched' = [dispatched EXCEPT !.invoked = @ \cup {"stt"}]
                /\ UNCHANGED <<audio, path>>
    /\ UNCHANGED <<resolver, shutdown_flag, input_queue, input_sender, output_queue,
                   output_receiver, config, nsent, nrecv, queued_at_drop,
                   chunk_log, last_sent, send_failed>>

\* output_sender.send: an error when the receiver is gone (the inner loop
\* breaks), else the result is queued once the queue has room.
SendResult ==
    /\ pc = "send"
    /\ LET result == Unwrap(transcription_result)
           send_ok == output_receiver
       IN  /\ send_ok => Len(output_queue) < QueueCap
           /\ IF send_ok
              THEN /\ output_queue' = Append(output_queue, result)
                   /\ last_sent' = result.input.data
                   /\ UNCHANGED send_failed
              ELSE /\ send_failed' = send_failed \cup {Unwrap(audio).id}
                   /\ UNCHANGED <<output_queue, last_sent>>
           /\ IF InnerLoopBreaks(send_ok, result)
              THEN /\ pc' = AfterBreak
                   /\ audio' = None
                   /\ path' = ""
                   /\ segments' = <<>>
              ELSE /\ pc' = "segs"
                   /\ UNCHANGED <<audio, path, segments>>
    /\ transcription_result' = None
    /\ stt_log' = NoCall
    /\ UNCHANGED <<resolver, shutdown_flag, input_queue, input_sender, output_receiver,
                   config, nsent, nrecv, queued_at_drop, chunk_log, dispatched>>

\* ------------------------------------------------------------ environment
\* The producer queues a chunk (it blocks while the queue is full).
ProducerSend ==
    /\ input_sender
    /\ ~TaskEnded
    /\ nsent < MaxChunks
    /\ Len(input_queue) < QueueCap
    /\ \E chunk \in Chunks :
        /\ chunk.id = nsent + 1
        /\ input_queue' = Append(input_queue, chunk)
    /\ nsent' = nsent + 1
    /\ UNCHANGED <<resolver, pc, shutdown_flag, input_sender, output_queue,
                   output_receiver, audio, path, segments,
                   transcription_result, config, nrecv, queued_at_drop,
                   chunk_log, dispatched, stt_log, last_sent, send_failed>>

\* The last input sender is dropped.
DropInputSender ==
    /\ input_sender
    /\ input_sender' = FALSE
    /\ queued_at_drop' = Len(input_queue)
    /\ UNCHANGED <<resolver, pc, shutdown_flag, input_queue, output_queue,
                   output_receiver, audio, path, segments,
                   transcription_result, config, nsent, nrecv, chunk_log,
                   dispatched, stt_log, last_sent, send_failed>>

\* The consumer takes a result.
ConsumerRecv ==
    /\ output_receiver
    /\ output_queue # <<>>
    /\ output_queue' = Tail(output_queue)
    /\ UNCHANGED <<resolver, pc, shutdown_flag, input_queue, input_sender,
                   output_receiver, audio, path, segments,
                   transcription_result, config, history>>

\* The output receiver is dropped.
DropOutputReceiver ==
    /\ output_receiver
    /\ output_receiver' = FALSE
    /\ UNCHANGED <<resolver, pc, shutdown_flag, input_queue, input_sender, output_queue,
                   audio, path, segments, transcription_result, config,
                   history>>

\* Any holder of the flag stores true.
SetShutdown ==
    /\ ~shutdown_flag
    /\ shutdown_flag' = TRUE
    /\ UNCHANGED <<resolver, pc, input_queue, input_sender, output_queue,
                   output_receiver, audio, path, segments,
                   transcription_result, config, history>>

\* The caller starts or stops a device of the control map.
SetRunning ==
    /\ IsSome(audio_devices_control)
    /\ \E device \in DOMAIN Unwrap(audio_devices_control) :
        audio_devices_control' = Some([Unwrap(audio_devices_control)
            EXCEPT ![device] = ~@])
    /\ UNCHANGED <<resolver, pc, shutdown_flag, input_queue, input_sender, output_queue,
                   output_receiver, num_mel_bins, audio_transcription_engine,
                   audio, path, segments, transcription_result, history>>

Loop == CheckShutdown \/ RecvChunk \/ RecvError \/ NextSegment \/ SendResult

Environment ==
    \/ ProducerSend
    \/ DropInputSender
    \/ ConsumerRecv
    \/ DropOutputReceiver
    \/ SetShutdown
    \/ SetRunning

Next == Loop \/ Environment

Spec == Init /\ [][Next]_vars

\* The task is scheduled: a step of the loop that stays possible is taken.
\* Nothing is assumed of the producer, the consumer or the caller.
FairSpec ==
    /\ Spec
    /\ WF_vars(CheckShutdown)
    /\ WF_vars(RecvChunk)
    /\ WF_vars(RecvError)
    /\ WF_vars(NextSegment)
    /\ WF_vars(SendResult)

\* ======================================================== overlap resolver
\* A text is a sequence of characters.  Block stands for one run of BlockLen
\* lower-case letters, so that texts longer than the threshold of
\* cleanup_overlap_fast can be written down.
HeuristicThreshold == 10000
SmallInputLimit == 1000
MinWords == 2
WindowDivisor == 5
MaxWindow == 50
MinOverlap == 3

Block == "x..x"
BlockLen == HeuristicThreshold - 2

is_whitespace(c) == c = " "
is_ascii_punctuation(c) == c = ","
to_lowercase(c) == IF c = "A" THEN "a" ELSE c

\* str::len, the length in bytes
len(text) ==
    Len(text) + (BlockLen - 1) * Cardinality({k \in 1..Len(text) : text[k] = Block})

is_empty(text) == text = <<>>

\* str::split_whitespace, collected: the maximal runs of characters that are
\* not white space, in their order.
WordStarts(text) ==
    {i \in 1..Len(text) :
        ~is_whitespace(text[i]) /\ (i = 1 \/ is_whitespace(text[i - 1]))}

WordEnds(text) ==
    {j \in 1..Len(text) :
        ~is_whitespace(text[j]) /\ (j = Len(text) \/ is_whitespace(text[j + 1]))}

Nth(positions, n) ==
    CHOOSE i \in positions : Cardinality({h \in positions : h < i}) = n - 1

split_whitespace(text) ==
    LET starts == WordStarts(text)
        ends == WordEnds(text)
    IN  [n \in 1..Cardinality(starts) |->
            SubSeq(text, Nth(starts, n), Nth(ends, n))]

\* [&str]::join(" ")
RECURSIVE join(_, _)
join(words, sep) ==
    IF words = <<>> THEN <<>>
    ELSE IF Len(words) = 1 THEN words[1]
    ELSE words[1] \o sep \o join(Tail(words), sep)

take(words, n) == SubSeq(words, 1, IF n < Len(words) THEN n ELSE Len(words))
skip(words, n) == SubSeq(words, (IF n < Len(words) THEN n ELSE Len(words)) + 1,
                         Len(words))

\* One word of preprocess_words: punctuation removed, then lower case.
clean_word(word) ==
    LET kept == SelectSeq(word, LAMBDA c : ~is_ascii_punctuation(c))
    IN  [k \in 1..Len(kept) |-> to_lowercase(kept[k])]

preprocess_words(text) ==
    LET words == split_whitespace(text)
    IN  SelectSeq([k \in 1..Len(words) |-> clean_word(words[k])],
                  LAMBDA word : word # <<>>)

\* The while loop of the matchers: how far the match at (i, j) extends.
\* Indices count from 0 as in the program.
RECURSIVE extend_match(_, _, _, _)
extend_match(s1_words, s2_words, ii, jj) ==
    IF ii < Len(s1_words) /\ jj < Len(s2_words)
       /\ s1_words[ii + 1] = s2_words[jj + 1]
    THEN 1 + extend_match(s1_words, s2_words, ii + 1, jj + 1)
    ELSE 0

\* The two loop variables of the matchers.  The outer loops below carry them
\* from one row of the inner loop to the next: a row either found a longer
\* match or left both as they were.
Best(max_len, best_match) == [max_len |-> max_len, best_match |-> best_match]

\* Variant of simple_for_j that keeps the last of the equally long matches.
RECURSIVE simple_for_j_last_wins(_, _, _, _, _, _)
simple_for_j_last_wins(s1_words, s2_words, i, j, max_len, best_match) ==
    IF j >= Len(s2_words) THEN Best(max_len, best_match)
    ELSE LET length == extend_match(s1_words, s2_words, i, j)
         IN  IF length >= max_len /\ length > 0
             THEN simple_for_j_last_wins(s1_words, s2_words, i, j + 1,
                                         length, Some(<<i, j>>))
             ELSE simple_for_j_last_wins(s1_words, s2_words, i, j + 1,
                                         max_len, best_match)

RECURSIVE simple_for_j(_, _, _, _, _, _)
simple_for_j(s1_words, s2_words, i, j, max_len, best_match) ==
    IF j >= Len(s2_words) THEN Best(max_len, best_match)
    ELSE LET length == extend_match(s1_words, s2_words, i, j)
         IN  IF length > max_len
             THEN simple_for_j(s1_words, s2_words, i, j + 1,
                               length, Some(<<i, j>>))
             ELSE simple_for_j(s1_words, s2_words, i, j + 1,
                               max_len, best_match)

RECURSIVE simple_for_i(_, _, _, _, _)
simple_for_i(s1_words, s2_words, i, max_len, best_match) ==
    IF i >= Len(s1_words) THEN Best(max_len, best_match)
    ELSE LET row == simple_for_j(s1_words, s2_words, i, 0,
                                 max_len, best_match)
         IN  IF row.max_len > max_len
             THEN simple_for_i(s1_words, s2_words, i + 1,
                               row.max_len, row.best_match)
             ELSE simple_for_i(s1_words, s2_words, i + 1,
                               max_len, best_match)

find_common_substring_simple(s1_words, s2_words) ==
    simple_for_i(s1_words, s2_words, 0, 0, None).best_match

\* Variant of s2_positions that lists the positions of a word last first.
s2_positions_descending(s2_words) ==
    [word \in {s2_words[k] : k \in 1..Len(s2_words)} |->
        SelectSeq([k \in 1..Len(s2_words) |-> Len(s2_words) - k],
                  LAMBDA idx : s2_words[idx + 1] = word)]

\* The map of find_common_substring_optimized: for each word of s2 its
\* positions, in the order they were pushed.
s2_positions(s2_words) ==
    [word \in {s2_words[k] : k \in 1..Len(s2_words)} |->
        SelectSeq([k \in 1..Len(s2_words) |-> k - 1],
                  LAMBDA idx : s2_words[idx + 1] = word)]

RECURSIVE optimized_for_j(_, _, _, _, _, _)
optimized_for_j(s1_words, s2_words, i, positions, max_len, best_match) ==
    IF positions = <<>> THEN Best(max_len, best_match)
    ELSE LET j == Head(positions)
             length == extend_match(s1_words, s2_words, i, j)
         IN  IF length > max_len
             THEN optimized_for_j(s1_words, s2_words, i, Tail(positions),
                                  length, Some(<<i, j>>))
             ELSE optimized_for_j(s1_words, s2_words, i, Tail(positions),
                                  max_len, best_match)

RECURSIVE optimized_for_i(_, _, _, _, _, _)
optimized_for_i(s1_words, s2_words, positions, i, max_len, best_match) ==
    IF i >= Len(s1_words) THEN Best(max_len, best_match)
    ELSE LET word == s1_words[i + 1]
         IN  IF word \in DOMAIN positions
             THEN LET row == optimized_for_j(s1_words, s2_words, i,
                                 positions[word], max_len, best_match)
                  IN  IF row.max_len > max_len
                      THEN optimized_for_i(s1_words, s2_words, positions,
                               i + 1, row.max_len, row.best_match)
                      ELSE optimized_for_i(s1_words, s2_words, positions,
                               i + 1, max_len, best_match)
             ELSE optimized_for_i(s1_words, s2_words, positions, i + 1,
                                  max_len, best_match)

find_common_substring_optimized(s1_words, s2_words) ==
    optimized_for_i(s1_words, s2_words, s2_positions(s2_words), 0,
                    0, None).best_match

\* Variant of longest_common_word_substring without the early return for
\* texts of fewer than MinWords words.
longest_common_word_substring_any_length(s1, s2) ==
    IF is_empty(s1) \/ is_empty(s2) THEN None
    ELSE LET s1_words == preprocess_words(s1)
             s2_words == preprocess_words(s2)
         IN  IF Len(s1_words) * Len(s2_words) < SmallInputLimit
             THEN find_common_substring_simple(s1_words, s2_words)
             ELSE find_common_substring_optimized(s1_words, s2_words)

longest_common_word_substring(s1, s2) ==
    IF is_empty(s1) \/ is_empty(s2) THEN None
    ELSE LET s1_words == preprocess_words(s1)
             s2_words == preprocess_words(s2)
             s1_len == Len(s1_words)
             s2_len == Len(s2_words)
         IN  IF s1_len < MinWords \/ s2_len < MinWords THEN None
             ELSE IF s1_len * s2_len < SmallInputLimit
             THEN find_common_substring_simple(s1_words, s2_words)
             ELSE find_common_substring_optimized(s1_words, s2_words)

\* cleanup_overlap on self.transcription and the previous transcript
cleanup_overlap(self_transcription, previous) ==
    IF ~IsSome(self_transcription) THEN None
    ELSE LET current == Unwrap(self_transcription)
         IN  IF is_empty(previous) \/ is_empty(current) THEN None
             ELSE LET found == longest_common_word_substring(previous, current)
                  IN  IF ~IsSome(found) THEN None
                      ELSE LET prev_idx == Unwrap(found)[1]
                               cur_idx == Unwrap(found)[2]
                               new_prev == join(take(split_whitespace(previous),
                                                     prev_idx), <<" ">>)
                               new_cur == join(skip(split_whitespace(current),
                                                    cur_idx), <<" ">>)
                           IN  IF ~is_empty(new_prev) \/ ~is_empty(new_cur)
                               THEN Some(<<new_prev, new_cur>>)
                               ELSE None

\* Variant of heuristic_for_j that takes a match of any length.
RECURSIVE heuristic_for_j_any_length(_, _, _, _, _, _, _)
heuristic_for_j_any_length(prev_words, curr_words, i, j, curr_end, max_len, best_match) ==
    IF j >= curr_end THEN Best(max_len, best_match)
    ELSE IF prev_words[i + 1] = curr_words[j + 1]
    THEN LET length == 1 + extend_match(prev_words, curr_words, i + 1, j + 1)
         IN  IF length > max_len
             THEN heuristic_for_j_any_length(prev_words, curr_words, i, j + 1,
                                             curr_end, length, Some(<<i, j>>))
             ELSE heuristic_for_j_any_length(prev_words, curr_words, i, j + 1,
                                             curr_end, max_len, best_match)
    ELSE heuristic_for_j_any_length(prev_words, curr_words, i, j + 1,
                                    curr_end, max_len, best_match)

RECURSIVE heuristic_for_j(_, _, _, _, _, _, _)
heuristic_for_j(prev_words, curr_words, i, j, curr_end, max_len, best_match) ==
    IF j >= curr_end THEN Best(max_len, best_match)
    ELSE IF prev_words[i + 1] = curr_words[j + 1]
    THEN LET length == 1 + extend_match(prev_words, curr_words, i + 1, j + 1)
         IN  IF length > max_len /\ length >= MinOverlap
             THEN heuristic_for_j(prev_words, curr_words, i, j + 1, curr_end,
                                  length, Some(<<i, j>>))
             ELSE heuristic_for_j(prev_words, curr_words, i, j + 1, curr_end,
                                  max_len, best_match)
    ELSE heuristic_for_j(prev_words, curr_words, i, j + 1, curr_end,
                         max_len, best_match)

RECURSIVE heuristic_for_i(_, _, _, _, _, _)
heuristic_for_i(prev_words, curr_words, i, curr_end, max_len, best_match) ==
    IF i >= Len(prev_words) THEN Best(max_len, best_match)
    ELSE LET row == heuristic_for_j(prev_words, curr_words, i, 0, curr_end,
                                    max_len, best_match)
         IN  IF row.max_len > max_len
             THEN heuristic_for_i(prev_words, curr_words, i + 1, curr_end,
                                  row.max_len, row.best_match)
             ELSE heuristic_for_i(prev_words, curr_words, i + 1, curr_end,
                                  max_len, best_match)

min(a, b) == IF a < b THEN a ELSE b
saturating_sub(a, b) == IF a < b THEN 0 ELSE a - b

cleanup_overlap_heuristic(prev, curr) ==
    LET prev_words == split_whitespace(prev)
        curr_words == split_whitespace(curr)
    IN  IF prev_words = <<>> \/ curr_words = <<>> THEN None
        ELSE LET search_window == min(Len(prev_words) \div WindowDivisor,
                                      MaxWindow)
                 prev_start == saturating_sub(Len(prev_words), search_window)
                 curr_end == min(search_window, Len(curr_words))
                 best == heuristic_for_i(prev_words, curr_words, prev_start,
                                         curr_end, 0, None)
             IN  IF ~IsSome(best.best_match) THEN None
                 ELSE LET prev_idx == Unwrap(best.best_match)[1]
                          curr_idx == Unwrap(best.best_match)[2]
                      IN  Some(<<join(take(prev_words, prev_idx), <<" ">>),
                                 join(skip(curr_words, curr_idx + best.max_len),
                                      <<" ">>)>>)

cleanup_overlap_fast(self_transcription, previous) ==
    IF ~IsSome(self_transcription) THEN None
    ELSE LET current == Unwrap(self_transcription)
         IN  IF len(previous) > HeuristicThreshold
                \/ len(current) > HeuristicThreshold
             THEN cleanup_overlap_heuristic(previous, current)
             ELSE cleanup_overlap(self_transcription, previous)

\* ------------------------------------------------- the resolver's inputs
\* Longest previous and current transcripts of the short inputs, in words.
MaxPrevWords == 4
MaxCurWords == 3
\* The long inputs: a block, PadWords filler words, then TailWords words at
\* the end of the previous transcript; up to HeadWords words at the start of
\* the current one.
PadWords == 15
TailWords == 4
HeadWords == 5
\* Word counts whose product reaches SmallInputLimit.
LargePrevWords == 40
LargeCurWords == 25
\* Filler of the transcript that goes past the cap of the search window.
HugePadWords == 204

\* "a", "b", "A," and a word that is punctuation only
Words == {<<"a">>, <<"b">>, <<"A", ",">>, <<",">>}
WindowWords == {<<"a">>, <<",">>}

WordLists(words, n) == UNION {[1..k -> words] : k \in 0..n}
Fill(n, c) == [k \in 1..n |-> <<c>>]
Text(words) == join(words, <<" ">>)

\* Short transcripts, and the ones that are white space only.
ShortPairs ==
    {<<Text(p), Some(Text(c))>> :
        p \in WordLists(Words, MaxPrevWords), c \in WordLists(Words, MaxCurWords)}
    \cup {<<Text(p), None>> : p \in WordLists(Words, 1)}
    \cup {<<<<" ">>, Some(Text(c))>> : c \in WordLists(Words, 1)}
    \cup {<<<<" ">> \o Text(p), Some(<<" ", " ">>)>> : p \in WordLists(Words, 1)}

\* Transcripts over the threshold of cleanup_overlap_fast, and one that is
\* exactly as long as the threshold (the block and one more word).
LongPairs ==
    {<<Text(<<<<Block>>>> \o Fill(pad, "z") \o tail),
       Some(Text(lead \o head))>> :
        pad \in {0, PadWords},
        tail \in [1..TailWords -> WindowWords],
        lead \in {<<>>, Fill(1, "z"), Fill(TailWords, "b")},
        head \in WordLists(WindowWords, HeadWords)}
    \cup {<<Text(tail), Some(Text(<<<<Block>>>> \o head))>> :
        tail \in [1..TailWords -> WindowWords],
        head \in [1..TailWords -> WindowWords]}
    \cup {<<Text(<<<<Block>>>> \o Fill(PadWords, "z")), None>>}
    \cup {<<Text(<<<<Block>>>> \o Fill(n, "a")),
             Some(Text(<<<<Block>>>> \o Fill(n, "a")))>> : n \in 1..2}

\* A previous transcript whose fifth is more than MaxWindow words.
HugePairs ==
    {<<Text(<<<<Block>>>> \o Fill(HugePadWords, "z") \o Fill(MinOverlap, "a")
            \o Fill(gap, "b")),
       Some(Text(Fill(MinOverlap, "a")))>> :
        gap \in {MaxWindow - MinOverlap, MaxWindow - MinOverlap + 1}}

\* Transcripts on either side of SmallInputLimit.
LargePairs ==
    {<<Text(Fill(n - 2, "y") \o tail), Some(Text(head \o Fill(LargeCurWords - 2, "z")))>> :
        n \in {LargePrevWords - 1, LargePrevWords},
        tail \in [1..2 -> {<<"a">>, <<"b">>}],
        head \in [1..2 -> {<<"a">>, <<"b">>}]}

Pairs == ShortPairs \cup LongPairs \cup HugePairs \cup LargePairs

OverlapInit ==
    /\ pc = "top"
    /\ shutdown_flag = FALSE
    /\ input_queue = <<>>
    /\ input_sender = TRUE
    /\ output_queue = <<>>
    /\ output_receiver = TRUE
    /\ audio_devices_control = None
    /\ num_mel_bins = 80
    /\ audio_transcription_engine = "Whisper"
    /\ audio = None
    /\ path = ""
    /\ segments = <<>>
    /\ transcription_result = None
    /\ nsent = 0
    /\ nrecv = 0
    /\ queued_at_drop = 0
    /\ chunk_log = [c \in 1..MaxChunks |-> "unseen"]
    /\ dispatched = NoDispatch
    /\ stt_log = NoCall
    /\ last_sent = NoSamples
    /\ send_failed = {}
    /\ \E pair \in Pairs :
        /\ previous_transcript = pair[1]
        /\ transcription = pair[2]
    /\ overlap = NoOverlap

\* What a call of one of the resolver's functions leaves behind.
Call(op, result) == [overlap EXCEPT !.op = op, !.result = result]

\* The exact functions are run on transcripts of up to LargePrevWords words.
WithinExactBound ==
    Cardinality(WordStarts(previous_transcript)) <= LargePrevWords

CleanupOverlap ==
    /\ overlap.op = ""
    /\ WithinExactBound
    /\ overlap' = Call("cleanup_overlap",
                       cleanup_overlap(transcription, previous_transcript))
    /\ UNCHANGED <<previous_transcript, transcription, pipeline>>

CleanupOverlapFast ==
    /\ overlap.op = ""
    /\ overlap' = Call("cleanup_overlap_fast",
                       cleanup_overlap_fast(transcription, previous_transcript))
    /\ UNCHANGED <<previous_transcript, transcription, pipeline>>

LongestCommonWordSubstring ==
    /\ overlap.op = ""
    /\ IsSome(transcription)
    /\ WithinExactBound
    /\ overlap' = Call("longest_common_word_substring",
                       longest_common_word_substring(previous_transcript,
                                                     Unwrap(transcription)))
    /\ UNCHANGED <<previous_transcript, transcription, pipeline>>

FindCommonSubstringSimple ==
    /\ overlap.op = ""
    /\ IsSome(transcription)
    /\ WithinExactBound
    /\ overlap' = Call("find_common_substring_simple",
                       find_common_substring_simple(
                           preprocess_words(previous_transcript),
                           preprocess_words(Unwrap(transcription))))
    /\ UNCHANGED <<previous_transcript, transcription, pipeline>>

FindCommonSubstringOptimized ==
    /\ overlap.op = ""
    /\ IsSome(transcription)
    /\ WithinExactBound
    /\ overlap' = Call("find_common_substring_optimized",
                       find_common_substring_optimized(
                           preprocess_words(previous_transcript),
                           preprocess_words(Unwrap(transcription))))
    /\ UNCHANGED <<previous_transcript, transcription, pipeline>>

\* The caller takes the rewritten pair for the two transcripts.
Adopt ==
    /\ overlap.op = "cleanup_overlap"
    /\ IsSome(overlap.result)
    /\ previous_transcript' = Unwrap(overlap.result)[1]
    /\ transcription' = Some(Unwrap(overlap.result)[2])
    /\ overlap' = [NoOverlap EXCEPT !.adopted = TRUE]
    /\ UNCHANGED pipeline

OverlapNext ==
    \/ CleanupOverlap
    \/ CleanupOverlapFast
    \/ LongestCommonWordSubstring
    \/ FindCommonSubstringSimple
    \/ FindCommonSubstringOptimized
    \/ Adopt

OverlapSpec == OverlapInit /\ [][OverlapNext]_vars

\* ================================================================ claims
\* Every result the loop holds or has queued.
Results ==
    {output_queue[i] : i \in 1..Len(output_queue)}
        \cup {transcription_result[i] : i \in 1..Len(transcription_result)}

ExactlyOne(r) == IsSome(r.transcription) # IsSome(r.error)

\* A loop step that receives a chunk.
ChunkReceived == nrecv' = nrecv + 1

\* A loop step that queues a result.
ResultQueued == Len(output_queue') > Len(output_queue)

\* C1: every result run_stt builds and the loop sends has exactly one of
\* transcription and error: the transcription alone when stt_sync succeeded,
\* the error alone when it failed.
C1_ExactlyOneOfTranscriptionAndError ==
    /\ \A r \in Results : ExactlyOne(r)
    /\ IsSome(transcription_result) =>
        LET r == Unwrap(transcription_result) IN
        IF stt_log.result.ok
        THEN r.transcription = Some(stt_log.result.val) /\ r.error = None
        ELSE r.error = Some(stt_log.result.val) /\ r.transcription = None

C1_Witness ==
    /\ IsSome(transcription_result)
    /\ IsSome(Unwrap(transcription_result).transcription)
    /\ \E i \in 1..Len(output_queue) : IsSome(output_queue[i].error)

\* Every result comes from a chunk that went through the whole dispatch, and
\* the pending one from the chunk in flight.
ResultsOnlyOfProcessedChunks ==
    /\ \A r \in Results : chunk_log[r.input.data.chunk] = "processed"
    /\ last_sent # NoSamples => chunk_log[last_sent.chunk] = "processed"
    /\ pc \in {"segs", "send"} =>
        /\ IsSome(audio)
        /\ chunk_log[Unwrap(audio).id] = "processed"
        /\ dispatched.chunk.id = Unwrap(audio).id
    /\ IsSome(transcription_result) =>
        /\ pc = "send"
        /\ Unwrap(transcription_result).input.data.chunk = Unwrap(audio).id

\* The device of the chunk at the head of the input queue is missing from the
\* control map, or is there and not running.
HeadGated ==
    /\ input_queue # <<>>
    /\ IsSome(audio_devices_control)
    /\ LET control == Unwrap(audio_devices_control)
           device == Head(input_queue).device
       IN  device \notin DOMAIN control \/ ~control[device]

\* The device of the chunk at the head of the input queue is in the control
\* map and running.
HeadPasses ==
    /\ input_queue # <<>>
    /\ IsSome(audio_devices_control)
    /\ LET control == Unwrap(audio_devices_control)
           device == Head(input_queue).device
       IN  device \in DOMAIN control /\ control[device]

\* C2: a chunk whose device is missing from the control map, or is not running
\* when the chunk is received, yields no output message and no call of the
\* resampler, the segmenter, the file writer or an engine, and the loop goes
\* back to the top to wait for the next chunk.
C2_GatedChunkIsDropped ==
    /\ []ResultsOnlyOfProcessedChunks
    /\ [][(ChunkReceived /\ HeadGated) =>
            /\ chunk_log'[Head(input_queue).id] \in {"stopped", "unknown"}
            /\ dispatched'.chunk = Head(input_queue)
            /\ dispatched'.invoked = {}
            /\ pc' = "top"
            /\ audio' = None /\ segments' = <<>> /\ path' = ""
            /\ transcription_result' = None
            /\ UNCHANGED <<output_queue, last_sent, stt_log>>]_vars

C2_Witness ==
    /\ nrecv = 2
    /\ chunk_log[1] = "stopped"
    /\ chunk_log[2] = "unknown"
    /\ pc = "recv"
    /\ output_queue = <<>>
    /\ last_sent = NoSamples

\* C3: once the shutdown flag is true the loop starts processing no chunk it
\* had not received before, so every later output belongs to the chunk in
\* flight when the flag was set.
C3_NoChunkStartedAfterShutdown ==
    [][shutdown_flag => ~(ChunkReceived /\ pc' = "segs")]_vars

\* C4: after the shutdown flag is set the task eventually ends, whatever the
\* producer and the consumer do.
C4_ShutdownLeadsToTermination == shutdown_flag ~> TaskEnded

\* C5: for a supported mel-bin count, engine Deepgram calls the remote service
\* first; its success is returned and the local model is not called; on its
\* failure the local model is called once with the same audio and languages
\* and its outcome is returned.  Engine Whisper calls the local model alone.
C5_EngineRouting ==
    (pc = "send" /\ stt_log.mel \in {80, 128}) =>
        LET call == EngineCall(stt_log.samples, Languages)
            local_outcome == process_with_whisper(stt_log.samples, stt_log.local)
        IN  IF stt_log.engine = "Deepgram"
            THEN /\ stt_log.remote_calls = <<call>>
                 /\ IF stt_log.remote = "ok"
                    THEN /\ stt_log.local_calls = <<>>
                         /\ stt_log.result = Ok("remote text")
                    ELSE /\ stt_log.local_calls = <<call>>
                         /\ stt_log.result = local_outcome
            ELSE /\ stt_log.remote_calls = <<>>
                 /\ stt_log.local_calls = <<call>>
                 /\ stt_log.result = local_outcome

C5_Witness ==
    /\ pc = "send"
    /\ stt_log.mel = 128
    /\ stt_log.engine = "Deepgram"
    /\ stt_log.remote = "fail"
    /\ Len(stt_log.local_calls) = 1
    /\ stt_log.result = Ok("local text")

\* The loop takes a step from the inner loop's send.
SendReturns == pc = "send" /\ pc' # "send"

\* The segment a result was built from.
SegmentOf(r) == r.input.data

\* C6: while the output receiver is connected every segment drained from the
\* stream gives one message on the output queue; a failed transcription is
\* sent as a result with the error set, no transcription and an empty
\* embedding, and the segments after it are still transcribed and sent.
C6_OneMessagePerSegment ==
    /\ [](\A r \in Results :
            IsSome(r.error) => r.transcription = None /\ r.speaker_embedding = <<>>)
    /\ [](pc = "send" =>
            /\ IsSome(transcription_result)
            /\ ~stt_log.result.ok => IsSome(Unwrap(transcription_result).error))
    /\ [][(pc = "segs" /\ pc' # "segs" /\ segments # <<>>) =>
            /\ pc' = "send"
            /\ segments' = Tail(segments)
            /\ IsSome(transcription_result')
            /\ SegmentOf(Unwrap(transcription_result')) = Head(segments).samples]_vars
    /\ [][(SendReturns /\ output_receiver) =>
            /\ output_queue' = Append(output_queue, Unwrap(transcription_result))
            /\ pc' = "segs"
            /\ segments' = segments]_vars

C6_Witness ==
    /\ pc = "send"
    /\ output_receiver
    /\ Len(output_queue) >= 1
    /\ LET failed == output_queue[Len(output_queue)]
           next == Unwrap(transcription_result)
       IN  /\ IsSome(failed.error)
           /\ failed.speaker_embedding = <<>>
           /\ SegmentOf(failed).seg = 1
           /\ SegmentOf(next).chunk = SegmentOf(failed).chunk
           /\ SegmentOf(next).seg = 2

\* Order of two segments: by chunk, then by place in the chunk's stream.
Before(a, b) == a.chunk < b.chunk \/ (a.chunk = b.chunk /\ a.seg < b.seg)

\* C7: results are sent in order: chunks are received in arrival order and
\* each result sent comes after the one sent before it, by chunk received and
\* then by segment of the stream.
C7_ResultsInOrder ==
    /\ [](nrecv >= 1 /\ dispatched # NoDispatch => dispatched.chunk.id = nrecv)
    /\ [][ResultQueued =>
            /\ last_sent' = SegmentOf(output_queue'[Len(output_queue')])
            /\ Before(last_sent, last_sent')]_vars
    /\ [](\A i, j \in 1..Len(output_queue) :
            i < j => Before(SegmentOf(output_queue[i]), SegmentOf(output_queue[j])))

C7_Witness ==
    /\ Len(output_queue) = 2
    /\ SegmentOf(output_queue[1]) = [chunk |-> 1, seg |-> 2]
    /\ SegmentOf(output_queue[2]) = [chunk |-> 2, seg |-> 1]
    /\ output_queue[1].input.device = output_queue[2].input.device

\* C8: a send that fails because the output receiver is gone ends the inner
\* loop only: the rest of the chunk's segments is dropped, the task goes back
\* to the top of the outer loop and ends later only on shutdown or on the
\* closure of the input.
C8_SendFailureBreaksInnerLoopOnly ==
    /\ [][(SendReturns /\ ~output_receiver) =>
            /\ pc' = "top"
            /\ segments' = <<>>
            /\ audio' = None
            /\ transcription_result' = None
            /\ UNCHANGED <<output_queue, input_queue>>]_vars
    /\ [](send_failed # {} /\ pc = "terminated" =>
            shutdown_flag \/ (input_queue = <<>> /\ ~input_sender))

C8_Witness ==
    /\ send_failed = {1}
    /\ nrecv = 2
    /\ chunk_log[2] = "processed"
    /\ pc = "send"
    /\ ~shutdown_flag

\* The loop takes a step from the receive on the input queue.
RecvReturns == pc = "recv" /\ pc' # "recv"

Skipped(fate) ==
    /\ dispatched # NoDispatch
    /\ chunk_log[dispatched.chunk.id] = fate

\* C10: resample is called only for a rate other than 16000; when it fails,
\* or when the segmenter fails, the chunk is skipped: no result, no audio
\* file, no engine call, and the loop goes on with the next chunk.
C10_FailedChunkIsSkipped ==
    /\ []ResultsOnlyOfProcessedChunks
    /\ []("resample" \in dispatched.invoked =>
            dispatched.chunk.sample_rate # SAMPLE_RATE)
    /\ [](Skipped("resample_err") =>
            /\ dispatched.invoked = {"resample"}
            /\ pc \in {"top", "recv", "terminated"})
    /\ [](Skipped("segment_err") =>
            /\ dispatched.invoked \subseteq {"resample", "prepare_segments"}
            /\ pc \in {"top", "recv", "terminated"})
    /\ [](Skipped("processed") =>
            /\ {"prepare_segments", "write_audio_to_file"} \subseteq dispatched.invoked
            /\ "resample" \in dispatched.invoked
                   <=> dispatched.chunk.sample_rate # SAMPLE_RATE)
    /\ [][(ChunkReceived /\ HeadPasses /\ dispatched'.failure # "none") =>
            /\ dispatched'.chunk = Head(input_queue)
            /\ chunk_log'[Head(input_queue).id] =
                   (IF dispatched'.failure = "resample"
                    THEN "resample_err" ELSE "segment_err")
            /\ dispatched'.invoked \subseteq {"resample", "prepare_segments"}
            /\ pc' = "top"
            /\ audio' = None /\ segments' = <<>> /\ path' = ""
            /\ UNCHANGED <<output_queue, last_sent, transcription_result>>]_vars

C10_Witness ==
    /\ nrecv = 2
    /\ chunk_log[1] = "resample_err"
    /\ chunk_log[2] = "segment_err"
    /\ dispatched.failure = "prepare_segments"
    /\ pc = "recv"
    /\ output_queue = <<>>
    /\ last_sent = NoSamples


\* The path write_audio_to_file left for the chunk being processed.
PathOf(d) == IF d.written = "ok" THEN FilePath(d.chunk) ELSE ""

\* A loop step that builds the result of a segment.
SegmentTranscribed == pc = "segs" /\ pc' = "send"

\* C11: a chunk whose audio file could not be written goes into the inner
\* loop with every segment the segmenter yielded and the empty path; each
\* result built for a chunk carries the empty path when the write failed and
\* the returned path when it succeeded, and a result with the empty path is
\* queued like any other.
C11_WriteFailureKeepsChunk ==
    [][/\ (ChunkReceived /\ dispatched'.written # "") =>
            /\ pc' = "segs"
            /\ path' = PathOf(dispatched')
            /\ segments' = prepare_segments(dispatched'.chunk,
                                            dispatched'.yielded)
       /\ SegmentTranscribed =>
            /\ Unwrap(transcription_result').path = PathOf(dispatched)
            /\ Unwrap(transcription_result').input.data.chunk
                   = dispatched.chunk.id
       /\ (SendReturns /\ output_receiver /\ dispatched.written = "fail") =>
            /\ output_queue' = Append(output_queue, Unwrap(transcription_result))
            /\ Unwrap(transcription_result).path = ""
            /\ pc' = "segs"]_vars

\* A result of the second segment of a chunk whose write failed is queued
\* behind the result of its first segment, both with the empty path.
C11_Witness ==
    /\ dispatched.written = "fail"
    /\ dispatched.yielded = 2
    /\ Len(output_queue) = 2
    /\ \A k \in 1..2 :
        /\ output_queue[k].path = ""
        /\ output_queue[k].input.data
               = [chunk |-> dispatched.chunk.id, seg |-> k]

UnsupportedMelBins == num_mel_bins \notin {80, 128}

\* C19: with a mel-bin count other than 80 and 128 the stt call of a segment
\* reaches neither engine, whatever the engine setting and whatever the
\* engines would have answered; the segment's result has the error set and no
\* transcription, and sending it to a connected receiver queues it and leaves
\* the task in the inner loop.
C19_UnsupportedMelBinsIsAnErrorResult ==
    [][/\ (SegmentTranscribed /\ UnsupportedMelBins) =>
            /\ stt_log'.remote_calls = <<>>
            /\ stt_log'.local_calls = <<>>
            /\ IsSome(Unwrap(transcription_result').error)
            /\ ~IsSome(Unwrap(transcription_result').transcription)
       /\ (SendReturns /\ UnsupportedMelBins /\ output_receiver) =>
            /\ output_queue' = Append(output_queue, Unwrap(transcription_result))
            /\ IsSome(Unwrap(transcription_result).error)
            /\ pc' = "segs"]_vars

\* With the remote engine selected and a remote service that would have
\* answered, the error result of the first segment is queued and the result of
\* the second segment is waiting to be sent.
C19_Witness ==
    /\ UnsupportedMelBins
    /\ audio_transcription_engine = "Deepgram"
    /\ pc = "send"
    /\ stt_log.remote = "ok"
    /\ stt_log.remote_calls = <<>>
    /\ Len(output_queue) = 1
    /\ IsSome(output_queue[1].error)
    /\ Unwrap(transcription_result).input.data.seg = 2

\* ------------------------------------------- claims on the overlap resolver
\* The normalized tokens of a text, and its tokens as they stand.
Normalized(text) == preprocess_words(text)
Tokens(text) == split_whitespace(text)

\* s1[i..i+L] = s2[j..j+L], indices from 0.
CommonRun(s1, s2, i, j, L) ==
    /\ i + L <= Len(s1)
    /\ j + L <= Len(s2)
    /\ \A k \in 1..L : s1[i + k] = s2[j + k]

\* The length of the longest common run that starts at (i, j).
RunAt(s1, s2, i, j) ==
    CHOOSE L \in 0..Len(s1) :
        CommonRun(s1, s2, i, j, L) /\ ~CommonRun(s1, s2, i, j, L + 1)

Starts(s1, s2) == (0..(Len(s1) - 1)) \X (0..(Len(s2) - 1))

\* The length of the longest common run of the two sequences, 0 if none.
LongestRun(s1, s2) ==
    LET lengths == {RunAt(s1, s2, s[1], s[2]) : s \in Starts(s1, s2)} \cup {0}
    IN  CHOOSE L \in lengths : \A K \in lengths : K <= L

LongestStarts(s1, s2) ==
    LET longest == LongestRun(s1, s2)
    IN  {s \in Starts(s1, s2) :
            longest >= 1 /\ RunAt(s1, s2, s[1], s[2]) = longest}

\* The tokens before index i, and the tokens from index j on, joined.
Until(words, i) == Text(SubSeq(words, 1, i))
From(words, j) == Text(SubSeq(words, j + 1, Len(words)))

\* The resolver has returned from `op` with a transcription present.
Resolved(op) == overlap.op = op /\ IsSome(transcription)

\* The pair (tokens of previous before i, tokens of current from j) for the
\* start (i, j) of some longest shared run of normalized tokens.
SplitAtLongestRun(result) ==
    LET current == Unwrap(transcription)
    IN  /\ IsSome(result)
        /\ \E s \in LongestStarts(Normalized(previous_transcript),
                                  Normalized(current)) :
            Unwrap(result) = <<Until(Tokens(previous_transcript), s[1]),
                               From(Tokens(current), s[2])>>

\* C12 as stated: whenever two non-empty transcripts share a run of at least
\* one normalized token, cleanup_overlap returns the split at the start of a
\* longest shared run, whatever the number of tokens.
C12_SplitForEveryTokenCount ==
    (/\ Resolved("cleanup_overlap")
     /\ ~is_empty(previous_transcript)
     /\ ~is_empty(Unwrap(transcription))
     /\ LongestRun(Normalized(previous_transcript),
                   Normalized(Unwrap(transcription))) >= 1)
        => SplitAtLongestRun(overlap.result)

\* C12, amended: the split at the start of a longest shared run is returned
\* when each transcript has at least MinWords normalized tokens; with fewer
\* in either of them cleanup_overlap returns nothing.
C12_SplitFromTwoTokensOn ==
    Resolved("cleanup_overlap") =>
        LET s1 == Normalized(previous_transcript)
            s2 == Normalized(Unwrap(transcription))
        IN  /\ (Len(s1) < MinWords \/ Len(s2) < MinWords) =>
                    overlap.result = None
            /\ (Len(s1) >= MinWords /\ Len(s2) >= MinWords
                /\ LongestRun(s1, s2) >= 1) =>
                    SplitAtLongestRun(overlap.result)

\* A split in the middle of both transcripts: something of previous is kept
\* and something of current is cut.
C12_Witness ==
    /\ Resolved("cleanup_overlap")
    /\ IsSome(overlap.result)
    /\ LongestRun(Normalized(previous_transcript),
                  Normalized(Unwrap(transcription))) = 2
    /\ Unwrap(overlap.result)[1] # <<>>
    /\ Unwrap(overlap.result)[2] # Unwrap(transcription)

\* The two transcripts share no normalized token, or one of them is empty,
\* or there is no transcription.
NothingShared ==
    \/ ~IsSome(transcription)
    \/ is_empty(previous_transcript)
    \/ is_empty(Unwrap(transcription))
    \/ LongestRun(Normalized(previous_transcript),
                  Normalized(Unwrap(transcription))) = 0

\* C13: cleanup_overlap and cleanup_overlap_fast, on its exact and on its
\* heuristic path, return nothing for transcripts that share no normalized
\* token, for an empty transcript and for a result without transcription.
C13_NothingSharedIsAbsent ==
    (overlap.op \in {"cleanup_overlap", "cleanup_overlap_fast"}
     /\ NothingShared)
        => overlap.result = None

\* C14: once the caller has taken the pair cleanup_overlap returned for the
\* two transcripts, cleanup_overlap on that pair returns nothing.
C14_ResolvedPairResolvesToNothing ==
    (overlap.adopted /\ overlap.op = "cleanup_overlap")
        => overlap.result = None

\* normalize: the normalized tokens of a text, joined by single spaces.
Normalize(text) == Text(Normalized(text))

PunctuationOnly(word) == clean_word(word) = <<>>

\* C15: cleanup_overlap returns a pair for two transcripts exactly when it
\* returns one for their normalized texts, the two pairs are equal token for
\* token after normalization, and no token that is punctuation only appears
\* in the pair returned.
C15_NormalizationInvariance ==
    Resolved("cleanup_overlap") =>
        LET raw == overlap.result
            normal == cleanup_overlap(Some(Normalize(Unwrap(transcription))),
                                      Normalize(previous_transcript))
        IN  /\ IsSome(raw) <=> IsSome(normal)
            /\ IsSome(raw) =>
                \A side \in 1..2 :
                    /\ Normalized(Unwrap(raw)[side])
                           = Normalized(Unwrap(normal)[side])
                    /\ \A k \in 1..Len(Tokens(Unwrap(raw)[side])) :
                           ~PunctuationOnly(Tokens(Unwrap(raw)[side])[k])

IsPrefix(s, t) == Len(s) <= Len(t) /\ SubSeq(t, 1, Len(s)) = s

\* The pair keeps the run of L tokens at (i, j) once, at the start of the new
\* current text: the new previous text stops before the run and the new
\* current text is the current text from the run on.
KeepsRunOnce(pair, s1, s2, i, j, L) ==
    /\ L >= 1
    /\ CommonRun(s1, s2, i, j, L)
    /\ Normalized(pair[1]) = SubSeq(s1, 1, i)
    /\ Normalized(pair[2]) = SubSeq(s2, j + 1, Len(s2))
    /\ IsPrefix(SubSeq(s1, i + 1, i + L), Normalized(pair[2]))

\* C16: a pair returned by cleanup_overlap or by cleanup_overlap_fast, on
\* either of its paths, keeps a shared run of the two transcripts once, at the
\* start of the new current text.
C16_OverlapKeptOnceInCurrent ==
    (overlap.op \in {"cleanup_overlap", "cleanup_overlap_fast"}
     /\ IsSome(overlap.result))
        => LET s1 == Normalized(previous_transcript)
               s2 == Normalized(Unwrap(transcription))
           IN  \E s \in Starts(s1, s2) :
                   KeepsRunOnce(Unwrap(overlap.result), s1, s2, s[1], s[2],
                                RunAt(s1, s2, s[1], s[2]))

\* (i, j) starts a longest common run and no other start of a longest run has
\* a smaller i, or the same i and a smaller j.
FirstLongestStart(s1, s2, i, j) ==
    LET starts == LongestStarts(s1, s2)
    IN  /\ <<i, j>> \in starts
        /\ \A s \in starts : i < s[1] \/ (i = s[1] /\ j <= s[2])

\* C17: a match returned by longest_common_word_substring, on its small-input
\* and on its large-input path, and by either matcher starts a common run of
\* the greatest length, and of the starts of such runs it is the one with the
\* smallest i and then the smallest j.
C17_FirstLongestRun ==
    (/\ overlap.op \in {"longest_common_word_substring",
                        "find_common_substring_simple",
                        "find_common_substring_optimized"}
     /\ IsSome(overlap.result))
        => FirstLongestStart(Normalized(previous_transcript),
                             Normalized(Unwrap(transcription)),
                             Unwrap(overlap.result)[1],
                             Unwrap(overlap.result)[2])

\* Two longest runs to choose from, on the large-input path.
C17_Witness ==
    /\ overlap.op = "longest_common_word_substring"
    /\ IsSome(overlap.result)
    /\ Len(Normalized(previous_transcript))
           * Len(Normalized(Unwrap(transcription))) >= SmallInputLimit
    /\ Cardinality(LongestStarts(Normalized(previous_transcript),
                                 Normalized(Unwrap(transcription)))) >= 2

\* C20: on the same two sequences of normalized tokens the two matchers
\* return the same value, and longest_common_word_substring returns that
\* value whenever it gets as far as choosing one of them.
C20_MatchersAgree ==
    IsSome(transcription) =>
        LET s1 == Normalized(previous_transcript)
            s2 == Normalized(Unwrap(transcription))
        IN  /\ overlap.op = "find_common_substring_simple" =>
                overlap.result = find_common_substring_optimized(s1, s2)
            /\ overlap.op = "find_common_substring_optimized" =>
                overlap.result = find_common_substring_simple(s1, s2)
            /\ (overlap.op = "longest_common_word_substring"
                /\ Len(s1) >= MinWords /\ Len(s2) >= MinWords) =>
                /\ overlap.result = find_common_substring_simple(s1, s2)
                /\ overlap.result = find_common_substring_optimized(s1, s2)

\* The optimized matcher has returned a match on sequences with a word that
\* occurs twice in the second one and starts equally long runs there.
C20_Witness ==
    /\ overlap.op = "find_common_substring_optimized"
    /\ IsSome(overlap.result)
    /\ LET s1 == Normalized(previous_transcript)
           s2 == Normalized(Unwrap(transcription))
       IN  \E s, t \in LongestStarts(s1, s2) : s[1] = t[1] /\ s[2] < t[2]

\* One of the two transcripts is longer than the threshold.
OverThreshold ==
    \/ len(previous_transcript) > HeuristicThreshold
    \/ len(Unwrap(transcription)) > HeuristicThreshold

\* W = min(number of tokens of previous / 5, 50)
Window(prev) ==
    IF Len(prev) \div WindowDivisor < MaxWindow
    THEN Len(prev) \div WindowDivisor
    ELSE MaxWindow

\* The starts in the last W tokens of previous and the first W tokens of
\* current of a common run of MinOverlap tokens or more.
Candidates(prev, curr) ==
    {s \in Starts(prev, curr) :
        /\ s[1] >= Len(prev) - Window(prev)
        /\ s[2] < Window(prev)
        /\ RunAt(prev, curr, s[1], s[2]) >= MinOverlap}

\* The candidate with the longest run; of several, the one with the smallest
\* i and then the smallest j.
BestCandidate(prev, curr, s) ==
    /\ s \in Candidates(prev, curr)
    /\ \A t \in Candidates(prev, curr) :
        LET mine == RunAt(prev, curr, s[1], s[2])
            other == RunAt(prev, curr, t[1], t[2])
        IN  \/ other < mine
            \/ other = mine /\ (s[1] < t[1] \/ (s[1] = t[1] /\ s[2] <= t[2]))

C21_EndsOnlyByShutdownOrInputError ==
    [][(~TaskEnded /\ TaskEnded') =>
           \/ pc = "top" /\ shutdown_flag
           \/ pc = "recv" /\ recv(input_queue, input_sender).kind = "err"]_vars
====
